---------------------------- MODULE Spec2Model ----------------------------
(***************************************************************************)
(* Model of network/dhcpd.py: an Ansible module that adds / removes host   *)
(* objects and looks up leases on an ISC-DHCP server through OMAPI.        *)
(*                                                                         *)
(* One invocation of main() is a run of the program counter pc through the *)
(* statements of main(); the lease authority (the OMAPI server) is the     *)
(* variable table, and every pypureomapi call is logged in calls.          *)
(*                                                                         *)
(* Line 108 of the source reads  ['mac_address', 'ip_address'].  where a   *)
(* comma is meant; the model reads required_one_of as the two-element list *)
(* it evidently is.                                                        *)
(***************************************************************************)
EXTENDS Integers, Sequences, FiniteSets, TLC

\* Number of distinct IPv4 addresses / hardware addresses considered.
NumIps == 2
NumMacs == 2

\* Python's None (the default of mac_address, ip_address, gather_facts).
None == 0

IpAddresses == 1..NumIps
MacAddresses == 1..NumMacs

VARIABLES
    HAVE_PYPUREOMAPI,  \* module global set by the import at load time
    table,             \* the authority's bindings: a set of <<ip, mac>>
    params,            \* module.params of the running invocation
    pc,                \* position of the invocation inside main()
    result,            \* what the invocation reported (exit_json/fail_json/print/traceback)
    calls,             \* pypureomapi calls made by this invocation, in order
    mac,               \* local variable mac of the remove branch
    session,           \* TRUE while the Omapi object of this invocation is connected
    table0,            \* the authority's bindings when the invocation started
    fault,             \* TRUE once the transport reported an error other than not-found
    prev               \* the invocation that ran just before, when it reported changed=True

vars == <<HAVE_PYPUREOMAPI, table, params, pc, result, calls, mac, session,
          table0, fault, prev>>

----------------------------------------------------------------------------
(* argument_spec *)

StateChoices == {"present", "absent"}

GatherFactsChoices == {"None", "true", "false"}

Params == [state : StateChoices,
           gather_facts : GatherFactsChoices,
           mac_address : MacAddresses \cup {None},
           ip_address : IpAddresses \cup {None}]

DefaultParams == [state |-> "present", gather_facts |-> "None",
                  mac_address |-> None, ip_address |-> None]

\* module.boolean(): None stays None (falsy), the BOOLEANS map to True/False.
boolean(arg) == arg = "true"

----------------------------------------------------------------------------
(* results *)

MsgRequiredOneOf == "one of the following is required: mac_address,ip_address"
MsgNoLibrary == "The pypureomapi python library is required"
MsgAbsentXor == "state=absent or gather_facts=true require exactly either one Hardware or one IP address"
MsgPresentBoth == "state=present requires both an IP and a Hardware address"
MsgConnect == "Error connecting to dhcp server"
MsgNotFound == "Entry not found"
MsgAdd == "Could not add entry"
MsgLookup == "Could not lookup Hardware address for leased IP address"
MsgRemoveArgs == "Removing a host entry requires exactly either one Hardware or one IP address"
MsgRemove == "Could not remove entry"
MsgNoAction == "No action specified!"

NoResult == [kind |-> "none", changed |-> FALSE, msg |-> "", dhcp_ip |-> None, dhcp_mac |-> None]

\* module.fail_json(msg=...): reports the failure and exits the process.
fail_json(m) == [kind |-> "failed", changed |-> FALSE, msg |-> m, dhcp_ip |-> None, dhcp_mac |-> None]

\* module.exit_json(changed=...): reports success and exits the process.
exit_json(c) == [kind |-> "ok", changed |-> c, msg |-> "", dhcp_ip |-> None, dhcp_mac |-> None]

\* print json.dumps(ansible_facts_dict); return 0
print_facts(ip, m) == [kind |-> "ok", changed |-> FALSE, msg |-> "", dhcp_ip |-> ip, dhcp_mac |-> m]

\* An exception no handler of main() catches: the interpreter prints a traceback.
Traceback == [kind |-> "crash", changed |-> FALSE, msg |-> "", dhcp_ip |-> None, dhcp_mac |-> None]

NoPrev == [params |-> DefaultParams, changed |-> FALSE]

----------------------------------------------------------------------------
(* The lease authority behind the Omapi object.                            *)

\* A table binds every ip to at most one mac and every mac to at most one ip.
IsBindingTable(t) ==
    \A a \in t : \A b \in t : (a[1] = b[1] \/ a[2] = b[2]) => a = b

BindingTables == {t \in SUBSET (IpAddresses \X MacAddresses) : IsBindingTable(t)}

\* Omapi.lookup_mac(ip): the mac bound to ip, None standing for OmapiErrorNotFound.
lookup_mac(t, ip) ==
    IF \E b \in t : b[1] = ip THEN (CHOOSE b \in t : b[1] = ip)[2] ELSE None

\* Omapi.lookup_ip(mac): the ip bound to mac, None standing for OmapiErrorNotFound.
lookup_ip(t, m) ==
    IF \E b \in t : b[2] = m THEN (CHOOSE b \in t : b[2] = m)[1] ELSE None

\* Omapi.add_host(ip, mac) is refused when ip or mac is already bound.
can_add_host(t, ip, m) == \A b \in t : b[1] # ip /\ b[2] # m

add_host(t, ip, m) == t \cup {<<ip, m>>}

\* Omapi.del_host(mac) removes the binding of mac.
has_host(t, m) == \E b \in t : b[2] = m

del_host(t, m) == {b \in t : b[2] # m}

Call(op, res) == [op |-> op, res |-> res]

----------------------------------------------------------------------------
Init ==
    /\ HAVE_PYPUREOMAPI \in BOOLEAN
    /\ table \in BindingTables
    /\ params = DefaultParams
    /\ pc = "idle"
    /\ result = NoResult
    /\ calls = <<>>
    /\ mac = None
    /\ session = FALSE
    /\ table0 = table
    /\ fault = FALSE
    /\ prev = NoPrev

\* Ansible runs the module with a set of parameters: main() is entered.
Start ==
    /\ pc \in {"idle", "done"}
    /\ \E p \in Params : params' = p
    /\ prev' = IF pc = "done" /\ result.kind = "ok" /\ result.changed
                  THEN [params |-> params, changed |-> TRUE]
                  ELSE NoPrev
    /\ pc' = "args"
    /\ result' = NoResult
    /\ calls' = <<>>
    /\ mac' = None
    /\ session' = FALSE
    /\ table0' = table
    /\ fault' = FALSE
    /\ UNCHANGED <<HAVE_PYPUREOMAPI, table>>

\* A statement that ends the invocation with result r.
Finish(r) ==
    /\ result' = r
    /\ pc' = "done"

\* required_one_of: at least one of mac_address, ip_address must be given
\* (state has a default, so ['gather_facts', 'state'] is always satisfied).
RequiredOneOfFails(p) == p.mac_address = None /\ p.ip_address = None

\* module = AnsibleModule(...)
AnsibleModule ==
    /\ pc = "args"
    /\ IF RequiredOneOfFails(params)
          THEN Finish(fail_json(MsgRequiredOneOf))
          ELSE pc' = "lib" /\ UNCHANGED result
    /\ UNCHANGED <<HAVE_PYPUREOMAPI, table, params, calls, mac, session, table0, fault, prev>>

\* if not HAVE_PYPUREOMAPI: fail_json
CheckLibrary ==
    /\ pc = "lib"
    /\ IF ~HAVE_PYPUREOMAPI
          THEN Finish(fail_json(MsgNoLibrary))
          ELSE pc' = "validate" /\ UNCHANGED result
    /\ UNCHANGED <<HAVE_PYPUREOMAPI, table, params, calls, mac, session, table0, fault, prev>>

\* Python's ^ on two bools.
Xor(a, b) == (a /\ ~b) \/ (~a /\ b)

\* The check guarded by state is None or state == 'absent'.
AbsentCheckFails(p) ==
    /\ p.state = "absent"
    /\ ~Xor(p.mac_address # None, p.ip_address # None)

PresentCheckFails_AnyAddress(p) ==
    /\ p.state = "present"
    /\ ~(p.mac_address # None \/ p.ip_address # None)

\* The check guarded by state == 'present'.
PresentCheckFails(p) ==
    /\ p.state = "present"
    /\ ~(p.mac_address # None /\ p.ip_address # None)

Validate_AfterConnect ==
    /\ pc = "validate"
    /\ IF AbsentCheckFails(params)
          THEN Finish(fail_json(MsgAbsentXor)) /\ session' = TRUE
               /\ calls' = Append(calls, Call("connect", "ok"))
          ELSE IF PresentCheckFails(params)
          THEN Finish(fail_json(MsgPresentBoth)) /\ session' = TRUE
               /\ calls' = Append(calls, Call("connect", "ok"))
          ELSE pc' = "connect" /\ UNCHANGED <<result, calls, session>>
    /\ UNCHANGED <<HAVE_PYPUREOMAPI, table, params, mac, table0, fault, prev>>

\* The two parameter checks that precede the connection.
Validate ==
    /\ pc = "validate"
    /\ IF AbsentCheckFails(params)
          THEN Finish(fail_json(MsgAbsentXor))
          ELSE IF PresentCheckFails(params)
          THEN Finish(fail_json(MsgPresentBoth))
          ELSE pc' = "connect" /\ UNCHANGED result
    /\ UNCHANGED <<HAVE_PYPUREOMAPI, table, params, calls, mac, session, table0, fault, prev>>

\* dhcpd_omapi = pypureomapi.Omapi(server, port, key_name, key_secret)
Connect ==
    /\ pc = "connect"
    /\ \/ /\ calls' = Append(calls, Call("connect", "ok"))
          /\ session' = TRUE
          /\ pc' = "query"
          /\ UNCHANGED <<result, fault>>
       \/ /\ calls' = Append(calls, Call("connect", "OmapiError"))
          /\ fault' = TRUE
          /\ Finish(fail_json(MsgConnect))
          /\ UNCHANGED session
    /\ UNCHANGED <<HAVE_PYPUREOMAPI, table, params, mac, table0, prev>>

\* The outcomes of one transport call: the answer of the authority, or an
\* OmapiError other than not-found (raised = TRUE).
Raised == BOOLEAN

Query_FallsThrough ==
    /\ pc = "query"
    /\ IF boolean(params.gather_facts)
          THEN \E raised \in Raised :
               /\ fault' = (fault \/ raised)
               /\ IF params.ip_address # None
                     THEN LET m == lookup_mac(table, params.ip_address) IN
                          IF raised
                             THEN /\ calls' = Append(calls, Call("lookup_mac", "OmapiError"))
                                  /\ Finish(Traceback)
                          ELSE IF m # None
                             THEN /\ calls' = Append(calls, Call("lookup_mac", "ok"))
                                  /\ result' = print_facts(params.ip_address, m)
                                  /\ pc' = "create"
                             ELSE /\ calls' = Append(calls, Call("lookup_mac", "OmapiErrorNotFound"))
                                  /\ Finish(fail_json(MsgNotFound))
                     ELSE LET ip == lookup_ip(table, params.mac_address) IN
                          IF raised
                             THEN /\ calls' = Append(calls, Call("lookup_ip", "OmapiError"))
                                  /\ Finish(Traceback)
                          ELSE IF ip # None
                             THEN /\ calls' = Append(calls, Call("lookup_ip", "ok"))
                                  /\ result' = print_facts(ip, params.mac_address)
                                  /\ pc' = "create"
                             ELSE /\ calls' = Append(calls, Call("lookup_ip", "OmapiErrorNotFound"))
                                  /\ Finish(fail_json(MsgNotFound))
          ELSE pc' = "create" /\ UNCHANGED <<result, calls, fault>>
    /\ UNCHANGED <<HAVE_PYPUREOMAPI, table, params, mac, session, table0, prev>>

\* if module.boolean(module.params['gather_facts']): look the lease up and
\* return it as facts; only OmapiErrorNotFound has a handler.
Query ==
    /\ pc = "query"
    /\ IF boolean(params.gather_facts)
          THEN \E raised \in Raised :
               /\ fault' = (fault \/ raised)
               /\ IF params.ip_address # None
                     THEN LET m == lookup_mac(table, params.ip_address) IN
                          IF raised
                             THEN /\ calls' = Append(calls, Call("lookup_mac", "OmapiError"))
                                  /\ Finish(Traceback)
                          ELSE IF m # None
                             THEN /\ calls' = Append(calls, Call("lookup_mac", "ok"))
                                  /\ Finish(print_facts(params.ip_address, m))
                             ELSE /\ calls' = Append(calls, Call("lookup_mac", "OmapiErrorNotFound"))
                                  /\ Finish(fail_json(MsgNotFound))
                     ELSE LET ip == lookup_ip(table, params.mac_address) IN
                          IF raised
                             THEN /\ calls' = Append(calls, Call("lookup_ip", "OmapiError"))
                                  /\ Finish(Traceback)
                          ELSE IF ip # None
                             THEN /\ calls' = Append(calls, Call("lookup_ip", "ok"))
                                  /\ Finish(print_facts(ip, params.mac_address))
                             ELSE /\ calls' = Append(calls, Call("lookup_ip", "OmapiErrorNotFound"))
                                  /\ Finish(fail_json(MsgNotFound))
          ELSE pc' = "create" /\ UNCHANGED <<result, calls, fault>>
    /\ UNCHANGED <<HAVE_PYPUREOMAPI, table, params, mac, session, table0, prev>>

\* if state == 'present': add_host, any OmapiError is "Could not add entry".
Create ==
    /\ pc = "create"
    /\ IF params.state = "present"
          THEN \E raised \in Raised :
               /\ fault' = (fault \/ raised)
               /\ IF raised \/ ~can_add_host(table, params.ip_address, params.mac_address)
                     THEN /\ calls' = Append(calls, Call("add_host", "OmapiError"))
                          /\ Finish(fail_json(MsgAdd))
                          /\ UNCHANGED table
                     ELSE /\ calls' = Append(calls, Call("add_host", "ok"))
                          /\ table' = add_host(table, params.ip_address, params.mac_address)
                          /\ Finish(exit_json(TRUE))
          ELSE pc' = "remove" /\ UNCHANGED <<result, calls, fault, table>>
    /\ UNCHANGED <<HAVE_PYPUREOMAPI, params, mac, session, table0, prev>>

RemoveResolve_IgnoresNotFound ==
    /\ pc = "remove"
    /\ IF params.state = "absent"
          THEN IF params.mac_address # None
                  THEN /\ mac' = params.mac_address
                       /\ pc' = "delete"
                       /\ UNCHANGED <<result, calls, fault>>
               ELSE IF params.ip_address # None
                  THEN \E raised \in Raised :
                       LET m == lookup_mac(table, params.ip_address) IN
                       /\ fault' = (fault \/ raised)
                       /\ IF raised
                             THEN /\ calls' = Append(calls, Call("lookup_mac", "OmapiError"))
                                  /\ Finish(Traceback)
                                  /\ UNCHANGED mac
                          ELSE IF m # None
                             THEN /\ calls' = Append(calls, Call("lookup_mac", "ok"))
                                  /\ mac' = m
                                  /\ pc' = "delete"
                                  /\ UNCHANGED result
                             ELSE /\ calls' = Append(calls, Call("lookup_mac", "OmapiErrorNotFound"))
                                  /\ pc' = "delete"
                                  /\ UNCHANGED <<mac, result>>
                  ELSE /\ Finish(fail_json(MsgRemoveArgs))
                       /\ UNCHANGED <<calls, fault, mac>>
          ELSE /\ Finish(fail_json(MsgNoAction))
               /\ UNCHANGED <<calls, fault, mac>>
    /\ UNCHANGED <<HAVE_PYPUREOMAPI, table, params, session, table0, prev>>

\* if state == 'absent': take the given mac, or resolve the given ip to its
\* mac; only OmapiErrorNotFound has a handler.  A state that is neither
\* 'present' nor 'absent' falls to the closing fail_json.
RemoveResolve ==
    /\ pc = "remove"
    /\ IF params.state = "absent"
          THEN IF params.mac_address # None
                  THEN /\ mac' = params.mac_address
                       /\ pc' = "delete"
                       /\ UNCHANGED <<result, calls, fault>>
               ELSE IF params.ip_address # None
                  THEN \E raised \in Raised :
                       LET m == lookup_mac(table, params.ip_address) IN
                       /\ fault' = (fault \/ raised)
                       /\ IF raised
                             THEN /\ calls' = Append(calls, Call("lookup_mac", "OmapiError"))
                                  /\ Finish(Traceback)
                                  /\ UNCHANGED mac
                          ELSE IF m # None
                             THEN /\ calls' = Append(calls, Call("lookup_mac", "ok"))
                                  /\ mac' = m
                                  /\ pc' = "delete"
                                  /\ UNCHANGED result
                             ELSE /\ calls' = Append(calls, Call("lookup_mac", "OmapiErrorNotFound"))
                                  /\ Finish(fail_json(MsgLookup))
                                  /\ UNCHANGED mac
                  ELSE /\ Finish(fail_json(MsgRemoveArgs))
                       /\ UNCHANGED <<calls, fault, mac>>
          ELSE /\ Finish(fail_json(MsgNoAction))
               /\ UNCHANGED <<calls, fault, mac>>
    /\ UNCHANGED <<HAVE_PYPUREOMAPI, table, params, session, table0, prev>>

\* dhcpd_omapi.del_host(mac): not-found is changed=False, any other
\* OmapiError is "Could not remove entry".
RemoveDelete ==
    /\ pc = "delete"
    /\ \E raised \in Raised :
       /\ fault' = (fault \/ raised)
       /\ IF raised
             THEN /\ calls' = Append(calls, Call("del_host", "OmapiError"))
                  /\ Finish(fail_json(MsgRemove))
                  /\ UNCHANGED table
          ELSE IF has_host(table, mac)
             THEN /\ calls' = Append(calls, Call("del_host", "ok"))
                  /\ table' = del_host(table, mac)
                  /\ Finish(exit_json(TRUE))
             ELSE /\ calls' = Append(calls, Call("del_host", "OmapiErrorNotFound"))
                  /\ Finish(exit_json(FALSE))
                  /\ UNCHANGED table
    /\ UNCHANGED <<HAVE_PYPUREOMAPI, params, mac, session, table0, prev>>

Next ==
    \/ Start
    \/ AnsibleModule
    \/ CheckLibrary
    \/ Validate
    \/ Connect
    \/ Query
    \/ Create
    \/ RemoveResolve
    \/ RemoveDelete

Spec == Init /\ [][Next]_vars

----------------------------------------------------------------------------
(* The three kinds of request. *)

IsQuery(p) == boolean(p.gather_facts)

IsCreate(p) == ~IsQuery(p) /\ p.state = "present"

IsRemove(p) == ~IsQuery(p) /\ p.state = "absent"

ExactlyOneAddress(p) == Xor(p.mac_address # None, p.ip_address # None)

ValidationMsgs == {MsgRequiredOneOf, MsgAbsentXor, MsgPresentBoth, MsgRemoveArgs}

\* The invocation ended with a validation failure.
ValidationFailed ==
    pc = "done" /\ result.kind = "failed" /\ result.msg \in ValidationMsgs

\* The invocation has got past (or was stopped by) the validation of its parameters.
ValidationDecided ==
    \/ ValidationFailed
    \/ HAVE_PYPUREOMAPI /\ pc \in {"connect", "query", "create", "remove", "delete", "done"}

Invoked(op) == \E i \in 1..Len(calls) : calls[i].op = op

Reported(op, res) == \E i \in 1..Len(calls) : calls[i] = Call(op, res)

----------------------------------------------------------------------------
\* C1: a Remove request (state=absent, by MAC or by IP) against an authority
\* that holds the binding ends with changed=true when no transport fault
\* occurs, and the same request issued again right after it ends with
\* changed=false, never with a failure.
RemoveIsIdempotent ==
    /\ ( /\ pc = "done" /\ IsRemove(params) /\ ExactlyOneAddress(params)
         /\ HAVE_PYPUREOMAPI /\ ~fault
         /\ \E b \in table0 : params.ip_address = b[1] \/ params.mac_address = b[2] )
       => result = exit_json(TRUE)
    /\ ( /\ pc = "done" /\ IsRemove(params) /\ ExactlyOneAddress(params)
         /\ prev.changed /\ prev.params = params /\ ~fault )
       => result = exit_json(FALSE)

\* C2: for a Remove request (state=absent) and for a Query request
\* (gather_facts true, any state), validation fails exactly when it is not
\* the case that exactly one of mac_address, ip_address is given.
RemoveQueryValidation ==
    ( /\ params.state = "absent" \/ IsQuery(params)
      /\ pc # "idle" /\ ValidationDecided )
    => (ValidationFailed <=> ~ExactlyOneAddress(params))

\* C3: for a Create request (state=present, not a query), validation fails
\* exactly when mac_address or ip_address is missing.
CreateValidation ==
    (pc # "idle" /\ IsCreate(params) /\ ValidationDecided)
    => (ValidationFailed <=> (params.mac_address = None \/ params.ip_address = None))

CreateValidationWitness ==
    /\ IsCreate(params) /\ ValidationFailed
    /\ params.mac_address # None /\ params.ip_address = None

\* C4: an invocation that ends with a validation failure has made no
\* transport call at all: no connection, no lookup, no add, no delete.
ValidationBeforeNetwork ==
    ValidationFailed => (calls = <<>> /\ ~session)

ValidationBeforeNetworkWitness ==
    ValidationFailed /\ result.msg = MsgAbsentXor /\ calls = <<>>

\* C5: an invocation never ends in a crash: it ends with a success or with
\* a reported failure, whatever error a transport call raises.
NeverCrashes ==
    pc = "done" => result.kind \in {"ok", "failed"}

\* C6: a Remove by IP only whose resolve lookup reports not-found ends with
\* the lookup failure, never invokes del_host and leaves the table as it was.
RemoveByIpUnresolved ==
    ( /\ IsRemove(params) /\ params.mac_address = None /\ params.ip_address # None
      /\ Reported("lookup_mac", "OmapiErrorNotFound") )
    => /\ pc = "done"
       /\ result = fail_json(MsgLookup)
       /\ ~Invoked("del_host")
       /\ table = table0

RemoveByIpUnresolvedWitness ==
    /\ IsRemove(params) /\ params.mac_address = None /\ params.ip_address # None
    /\ Reported("lookup_mac", "OmapiErrorNotFound")
    /\ pc = "done"

\* C7: a Query (gather_facts true, any state, any lookup outcome) never
\* invokes add_host or del_host, leaves the table as it was, and reports
\* changed=false when it succeeds.
QueryNeverMutates ==
    (pc # "idle" /\ IsQuery(params))
    => /\ ~Invoked("add_host")
       /\ ~Invoked("del_host")
       /\ table = table0
       /\ (pc = "done" /\ result.kind = "ok") => ~result.changed

QueryNeverMutatesWitness ==
    /\ IsQuery(params) /\ params.state = "present"
    /\ pc = "done" /\ result.kind = "ok"
    /\ Reported("lookup_mac", "ok")

\* C8: for every binding <<ip, mac>> the authority holds, a Query by that ip
\* and a Query by that mac both succeed and return dhcp_ip = ip and
\* dhcp_mac = mac (no transport fault).
QueryReturnsBinding ==
    \A b \in table0 :
        ( /\ pc = "done" /\ IsQuery(params) /\ HAVE_PYPUREOMAPI /\ ~fault
          /\ \/ params.ip_address = b[1] /\ params.mac_address = None
             \/ params.ip_address = None /\ params.mac_address = b[2] )
        => result = print_facts(b[1], b[2])

\* C9: a Create whose add_host succeeds ends with changed=true, and a Query
\* for the created ip or mac issued right after it succeeds with
\* changed=false and dhcp_ip, dhcp_mac equal to the created binding.
CreateThenQuery ==
    /\ (pc = "done" /\ IsCreate(params) /\ Reported("add_host", "ok"))
       => result = exit_json(TRUE)
    /\ ( /\ pc = "done" /\ prev.changed /\ IsCreate(prev.params)
         /\ IsQuery(params) /\ ExactlyOneAddress(params) /\ ~fault
         /\ params.ip_address \in {None, prev.params.ip_address}
         /\ params.mac_address \in {None, prev.params.mac_address} )
       => result = print_facts(prev.params.ip_address, prev.params.mac_address)

=============================================================================
